---- MODULE Spec2Model ----
(***************************************************************************)
(* Model of the vince rack scheduler (src/src/rack.rs, Rack::step), of the *)
(* modules it drives, of the audio stage of a tick, of the time base       *)
(* (src/src/main.rs, rack_stepper) and of the patch address parser         *)
(* (src/src/modules/mod.rs, ModuleKeyVisitor::visit_str).  A rack is a map *)
(* of modules, a patch table and the outs cache; one RackStep action is    *)
(* one call of Rack::step.                                                 *)
(*                                                                         *)
(* f32 values are modelled as integers plus the distinguished value NaN.   *)
(* Port index i of the source is position i + 1 of a TLA+ sequence.        *)
(***************************************************************************)
EXTENDS Integers, Sequences, FiniteSets, TLC

VARIABLES
    patches,        \* Rack.patches: set of <<source key, destination key>>
    order,          \* iteration order of Rack.modules (a HashMap), fixed per rack
    knobs,          \* knobs[id]: the knobs array of module id
    outs,           \* Rack.outs: function from the present keys to their value
    audio_context,  \* Rack.audio_context.is_some()
    tick,           \* number of completed calls of Rack::step, up to MaxTicks
    last,           \* what happened in the most recent call of Rack::step
    prev,           \* what happened in the call before that
    modules,        \* Rack.modules: the kind of module each id is loaded with
    is_init,        \* is_init[id]: Module::is_init of module id (id.is_some())
    audio_buffer,   \* audio_buffer[id]: the audio_buffer field of module id
    output,         \* AudioContextOutput: buffer, blocks written to the stream
    input,          \* AudioContextInput and its device: the mutex-guarded buffer
    pc,             \* where the engine thread is: "idle" or "lock" (rack.rs:294)
    pending,        \* the scheduler result of a tick suspended at "lock"
    stage,          \* what the audio stage of the most recent tick did
    clock,          \* the time base of main.rs: time source and rack_stepper
    address,        \* the string handed to visit_str
    parsed,         \* the result of visit_str: not parsed, an Ok key or an Err
    keyboard_in,    \* a KeyboardIn module: its keys, the last step and frame
    conway,         \* a Conway module: grid, scan, and what its seed yields
    envelope_generator, \* an EnvelopeGenerator module and its last step
    looper,         \* a Looper module: buffer, idx, knobs, and its last read
    midi_in,        \* a MidiIn module, its event queue and its two threads
    buttons         \* ButtonInput<KeyCode> as it stands for KeyCode::KeyN

rackVars == <<patches, order, knobs, outs, audio_context, tick, last, prev,
              modules, is_init>>
audioVars == <<audio_buffer, output, input, pc, pending, stage>>
otherVars == <<clock, address, parsed>>
moduleVars == <<keyboard_in, buttons, conway, envelope_generator, looper,
               midi_in>>

vars == <<patches, order, knobs, outs, audio_context, tick, last, prev,
          modules, is_init, audio_buffer, output, input, pc, pending, stage,
          clock, address, parsed, keyboard_in, buttons, conway,
          envelope_generator, looper, midi_in>>

----------------------------------------------------------------------------
(* Bounds of the model *)

MaxTicks == 2       \* calls of Rack::step explored per rack
MaxPatches == 2     \* patches in a patch table
MaxPort == 0        \* highest Input / Knob index used as a patch destination
MaxScans == 4       \* scans of the resolution loop explored in one tick
MaxBlocks == 1      \* blocks written to the output stream by a rack with AudioOut
MaxCaptured == 2    \* callback runs whose samples wait in the input buffer
MaxFrames == 3      \* outer frames (runs of rack_stepper) explored
MaxLen == 4         \* length of an address string
MaxSteps == 3       \* calls of a module's step explored per frame
MaxGens == 2        \* generations of the Conway grid explored
MaxTime == 4        \* calls of EnvelopeGenerator::step, one per time unit
MaxLooperSteps == 4 \* calls of Looper::step explored
MaxDuration == 3    \* longest Looper duration, in samples (duration * 44100)
MaxMessages == 2    \* MIDI messages the connection callback receives
MaxMidiSteps == 3   \* calls of MidiIn::step explored
MaxEvents == 3      \* key events in one frame

----------------------------------------------------------------------------
(* f32 *)

NaN == 999

IsNan(v) == v = NaN

FMul(a, b) == IF IsNan(a) \/ IsNan(b) THEN NaN ELSE a * b
FAdd(a, b) == IF IsNan(a) \/ IsNan(b) THEN NaN ELSE a + b
FLt(a, b) == ~IsNan(a) /\ ~IsNan(b) /\ a < b
FGt(a, b) == ~IsNan(a) /\ ~IsNan(b) /\ a > b
FLe(a, b) == ~IsNan(a) /\ ~IsNan(b) /\ a <= b
FSub(a, b) == IF IsNan(a) \/ IsNan(b) THEN NaN ELSE a - b

----------------------------------------------------------------------------
(* The modules of the rack: the rack file maps module ids to modules.      *)

ModuleIds == {1, 2, 3}

\* the rack of Noise, Limiter and Mixer
ClassicRack == (1 :> "Noise") @@ (2 :> "Limiter") @@ (3 :> "Mixer")

\* the rack of a MultiSampler without samplers, a Limiter and a Mixer
SamplerRack == (1 :> "MultiSampler") @@ (2 :> "Limiter") @@ (3 :> "Mixer")

\* the rack of a Noise and two AudioOut
AudioRack == (1 :> "Noise") @@ (2 :> "AudioOut") @@ (3 :> "AudioOut")

KindOf == modules

StepType == {"Key", "Audio", "Video"}

\* values perlin(time) / the random draw can take in one tick
NoiseSamples == {1}

inputs(kind) ==
    CASE kind = "Noise" -> 0
      [] kind = "Limiter" -> 1
      [] kind = "Mixer" -> 8
      [] kind = "AudioOut" -> 2
      [] kind = "MultiSampler" -> 0

outputs(kind) ==
    CASE kind = "Noise" -> 1
      [] kind = "Limiter" -> 1
      [] kind = "Mixer" -> 1
      [] kind = "AudioOut" -> 0
      [] kind = "MultiSampler" -> 0     \* a MultiSampler without samplers

nknobs(kind) ==
    CASE kind = "Noise" -> 1
      [] kind = "Limiter" -> 2
      [] kind = "Mixer" -> 8
      [] kind = "AudioOut" -> 1
      [] kind = "MultiSampler" -> 0

\* the knobs array each module is loaded with
InitKnobs(kind) ==
    CASE kind = "Noise" -> <<1>>
      [] kind = "Limiter" -> <<0, 1>>
      [] kind = "Mixer" -> [j \in 1..8 |-> 1]
      [] kind = "AudioOut" -> <<2>>
      [] kind = "MultiSampler" -> <<>>

NoiseStep(kn, st, sample) ==
    IF st = "Video" THEN <<0>> ELSE <<FMul(sample, kn[1])>>

LimiterStep(kn, ins) ==
    LET lower == kn[1]
        upper == kn[2]
        x == ins[1]
    IN  IF FLt(lower, upper)
        THEN IF FGt(x, upper) THEN <<upper>>
             ELSE IF FLt(x, lower) THEN <<lower>>
             ELSE <<x>>
        ELSE IF FLt(x, lower) /\ FGt(x, upper)
             THEN IF FLe(FSub(lower, x), FSub(x, upper)) THEN <<lower>> ELSE <<upper>>
             ELSE <<x>>

RECURSIVE MixerSum(_, _, _)
MixerSum(kn, ins, j) ==
    IF j = 0 THEN 0
    ELSE FAdd(MixerSum(kn, ins, j - 1),
              FMul(IF IsNan(ins[j]) THEN 0 ELSE ins[j], kn[j]))

MixerStep(kn, ins) == <<MixerSum(kn, ins, 8)>>

\* AudioOut::step returns no output
AudioOutStep(kn, st, ins) == <<>>

\* a step that leaves a NaN right channel as it is
AudioOutPushNoDouble(kn, st, ins) ==
    IF st = "Video" THEN <<>>
    ELSE <<(<<FMul(ins[1], kn[1]), FMul(ins[2], kn[1])>>)>>

\* what AudioOut::step pushes onto its audio_buffer
AudioOutPush(kn, st, ins) ==
    IF st = "Video" THEN <<>>
    ELSE LET left == FMul(ins[1], kn[1])
             right == IF IsNan(ins[2]) THEN left ELSE FMul(ins[2], kn[1])
         IN  <<(<<left, right>>)>>

\* MultiSampler::step when no sampler is active: vec![0.0, 0.0, 0.0]
MultiSamplerStep == <<0, 0, 0>>

\* m.step(time, st, ins): the vector of outputs() values the module returns
ModuleStep(kind, kn, st, sample, ins) ==
    CASE kind = "Noise" -> NoiseStep(kn, st, sample)
      [] kind = "Limiter" -> LimiterStep(kn, ins)
      [] kind = "Mixer" -> MixerStep(kn, ins)
      [] kind = "AudioOut" -> AudioOutStep(kn, st, ins)
      [] kind = "MultiSampler" -> MultiSamplerStep

----------------------------------------------------------------------------
(* Keys and patch tables *)

\* ModuleKey { id, iok }
Key(id, iok, i) == <<id, iok, i>>

\* sources a patch can name: the outputs of the modules and one output index
\* that its module never produces
SourceKeys ==
    {Key(id, "Output", 0) : id \in ModuleIds} \cup {Key(1, "Output", 1)}

DestKeys ==
    {Key(id, "Input", i) : id \in ModuleIds, i \in 0..MaxPort}
    \cup {Key(id, "Knob", i) : id \in ModuleIds, i \in 0..MaxPort}

\* the index of a destination is below the declared count of its module
ValidDest(d) ==
    \/ d[2] = "Input" /\ d[3] < inputs(KindOf[d[1]])
    \/ d[2] = "Knob" /\ d[3] < nknobs(KindOf[d[1]])

Edges == {e \in SourceKeys \X DestKeys : ValidDest(e[2])}

RECURSIVE TablesUpTo(_)
TablesUpTo(n) ==
    IF n = 0 THEN {{}}
    ELSE LET T == TablesUpTo(n - 1)
         IN  T \cup {t \cup {e} : t \in T, e \in Edges}

\* fan-out on the source side only: a destination port has one source
PatchTables ==
    {t \in TablesUpTo(MaxPatches) :
        \A p \in t, q \in t : p[2] = q[2] => p = q}

RECURSIVE PermsOf(_)
PermsOf(S) ==
    IF S = {} THEN {<<>>}
    ELSE UNION {{<<x>> \o p : p \in PermsOf(S \ {x})} : x \in S}

Orders == PermsOf(ModuleIds)

----------------------------------------------------------------------------
(* Rack::step *)

\* self.outs.insert(k, v): the entry of k is replaced or added
Insert(o, k, v) == (k :> v) @@ o

\* for (i, mo) in mouts.iter().enumerate() { self.outs.insert(Output(i), mo) }
RECURSIVE InsertOutputs(_, _, _, _)
InsertOutputs(o, id, mouts, n) ==
    IF n = 0 THEN o
    ELSE Insert(InsertOutputs(o, id, mouts, n - 1),
                Key(id, "Output", n - 1), mouts[n])

Contains(seq, x) == \E j \in 1..Len(seq) : seq[j] = x

\* self.patches.iter().filter(|p| p.1.id == k.id)
InPatches(P, id) == {p \in P : p[2][1] = id}

\* the filter of the first loop of Rack::step
NoDependency(P, id) ==
    inputs(KindOf[id]) = 0 \/ ~\E p \in P : p[2][1] = id

\* the first loop without the insertion of the outputs into outs
ZeroStepOneNoRecord(s, P, id, st, sample) ==
    LET kind == KindOf[id]
        ins == [j \in 1..inputs(kind) |-> 0] \o <<>>
        mouts == ModuleStep(kind, s.knobs[id], st, sample, ins)
    IN  [s EXCEPT
            !.stepped = Append(@, id),
            !.calls = Append(@, [id |-> id, phase |-> "zero", ins |-> ins,
                                 outs |-> mouts, knobs |-> s.knobs[id]])]

\* the body of the first loop, for one module that passes its filter
ZeroStepOne(s, P, id, st, sample) ==
    LET kind == KindOf[id]
        ins == [j \in 1..inputs(kind) |-> 0] \o <<>>
        mouts == ModuleStep(kind, s.knobs[id], st, sample, ins)
    IN  [s EXCEPT
            !.stepped = Append(@, id),
            !.outs = InsertOutputs(@, id, mouts, Len(mouts)),
            !.calls = Append(@, [id |-> id, phase |-> "zero", ins |-> ins,
                                 outs |-> mouts, knobs |-> s.knobs[id]])]

RECURSIVE ZeroPass(_, _, _, _, _, _)
ZeroPass(s, P, ord, st, sample, i) ==
    IF i > Len(ord) THEN s
    ELSE LET id == ord[i]
             s1 == IF NoDependency(P, id)
                   THEN ZeroStepOne(s, P, id, st, sample)
                   ELSE s
         IN  ZeroPass(s1, P, ord, st, sample, i + 1)

\* mins after the Input patches of the module have been copied from outs
\* (\o <<>> leaves the array as it is and makes it a tuple value)
Mins(o, inp, id) ==
    LET I == {p \in inp : p[2][2] = "Input" /\ p[1] \in DOMAIN o}
    IN  [j \in 1..inputs(KindOf[id]) |->
            IF \E p \in I : p[2][3] = j - 1
            THEN o[(CHOOSE p \in I : p[2][3] = j - 1)[1]]
            ELSE NaN] \o <<>>

\* the Knob patches of inp whose source is in outs, NaN or not
KnobWritesAnyValue(o, inp) ==
    {p \in inp : p[2][2] = "Knob" /\ p[1] \in DOMAIN o}

\* the Knob patches of inp whose source is in outs and not NaN
KnobWrites(o, inp) ==
    {p \in inp : p[2][2] = "Knob" /\ p[1] \in DOMAIN o /\ ~IsNan(o[p[1]])}

\* the knobs array after m.set_knob(i, *o.1) for every patch of KnobWrites
ApplyKnobs(kn, o, inp, id) ==
    LET W == KnobWrites(o, inp)
    IN  IF W = {} THEN kn
        ELSE [j \in 1..Len(kn) |->
                IF \E p \in W : p[2][3] = j - 1
                THEN o[(CHOOSE p \in W : p[2][3] = j - 1)[1]]
                ELSE kn[j]] \o <<>>

RECURSIVE SetToSeq(_)
SetToSeq(S) ==
    IF S = {} THEN <<>>
    ELSE LET x == CHOOSE y \in S : TRUE IN <<x>> \o SetToSeq(S \ {x})

\* the set_knob calls made for the patches of KnobWrites
KnobCalls(o, inp, id, phase) ==
    LET W == SetToSeq(KnobWrites(o, inp))
    IN  [j \in 1..Len(W) |->
            [id |-> id, i |-> W[j][2][3], val |-> o[W[j][1]], phase |-> phase]]

\* the body of the scan for one module that has not stepped yet
ScanOne(s, P, id, st, sample) ==
    LET inp == InPatches(P, id)
    IN  IF \A p \in inp : p[1] \in DOMAIN s.outs
        THEN LET kind == KindOf[id]
                 mins == Mins(s.outs, inp, id)
                 kn == ApplyKnobs(s.knobs[id], s.outs, inp, id)
                 mouts == ModuleStep(kind, kn, st, sample, mins)
             IN  [s EXCEPT
                    !.knobs[id] = kn,
                    !.sets = @ \o KnobCalls(s.outs, inp, id, "pre"),
                    !.stepped = Append(@, id),
                    !.step_count = @ + 0,
                    !.scan_steps = @ + 1,
                    !.outs = InsertOutputs(@, id, mouts, Len(mouts)),
                    !.calls = Append(@, [id |-> id, phase |-> "loop",
                                         ins |-> mins, outs |-> mouts,
                                         knobs |-> kn])]
        ELSE s

RECURSIVE Scan(_, _, _, _, _, _)
Scan(s, P, ord, st, sample, i) ==
    IF i > Len(ord) THEN s
    ELSE LET id == ord[i]
             s1 == IF ~Contains(s.stepped, id)
                   THEN ScanOne(s, P, id, st, sample)
                   ELSE s
         IN  Scan(s1, P, ord, st, sample, i + 1)

\* a fallback that materializes no placeholder
MissingNone(o, P) == {}

\* the sources of patches that are not in outs
Missing(o, P) == {p[1] : p \in {q \in P : q[1] \notin DOMAIN o}}

\* the end of one iteration of the while loop
AfterScan(s, P) ==
    LET ins == IF s.step_count = 0 THEN Missing(s.outs, P) ELSE {}
    IN  [s EXCEPT
            !.outs = @ @@ [x \in ins |-> NaN],
            !.scans = Append(@, [steps |-> s.scan_steps, inserted |-> ins]),
            !.step_count = 0,
            !.scan_steps = 0]

RECURSIVE Resolve(_, _, _, _, _, _)
Resolve(s, P, ord, st, sample, fuel) ==
    IF ~(Len(s.stepped) < Cardinality(ModuleIds)) THEN s
    ELSE IF fuel = 0 THEN [s EXCEPT !.finished = FALSE]
    ELSE Resolve(AfterScan(Scan(s, P, ord, st, sample, 1), P),
                 P, ord, st, sample, fuel - 1)

\* the filter of the knob-feedback loop
HasKnobPatch(P, id) == \E p \in P : p[2][1] = id /\ p[2][2] = "Knob"

\* a knob-feedback pass that applies nothing
FeedbackOneSkip(s, P, id) == s

\* the body of the knob-feedback loop for one module
FeedbackOne(s, P, id) ==
    LET inp == InPatches(P, id)
    IN  [s EXCEPT
            !.knobs[id] = ApplyKnobs(@, s.outs, inp, id),
            !.sets = @ \o KnobCalls(s.outs, inp, id, "feedback")]

RECURSIVE Feedback(_, _, _, _)
Feedback(s, P, ord, i) ==
    IF i > Len(ord) THEN s
    ELSE LET id == ord[i]
             s1 == IF HasKnobPatch(P, id) THEN FeedbackOne(s, P, id) ELSE s
         IN  Feedback(s1, P, ord, i + 1)

EmptyOuts == [x \in {} |-> 0]

\* a purge that removes every entry
PurgeAll(o) == EmptyOuts

\* a purge that removes nothing
PurgeNone(o) == o

\* self.outs.extract_if(|_, v| v.is_nan()).last()
Purge(o) == [x \in {k \in DOMAIN o : ~IsNan(o[k])} |-> o[x]]

\* one call of Rack::step from outs o0 and knobs kn0
StepResult(o0, kn0, P, ord, st, sample) ==
    LET s0 == [stepped |-> <<>>, outs |-> o0, knobs |-> kn0,
               calls |-> <<>>, scans |-> <<>>, sets |-> <<>>,
               step_count |-> 0, scan_steps |-> 0, finished |-> TRUE]
        s1 == ZeroPass(s0, P, ord, st, sample, 1)
        s2 == Resolve(s1, P, ord, st, sample, MaxScans)
        s3 == Feedback(s2, P, ord, 1)
    IN  [outs |-> Purge(s3.outs), knobs |-> s3.knobs,
         calls |-> s3.calls, scans |-> s3.scans, sets |-> s3.sets,
         finished |-> s2.finished,
         outsEnd |-> s3.outs, outs0 |-> o0, knobs0 |-> kn0]

NoTick == [outs |-> EmptyOuts, knobs |-> [id \in ModuleIds |-> <<>>],
           calls |-> <<>>, scans |-> <<>>, sets |-> <<>>, finished |-> TRUE,
           outsEnd |-> EmptyOuts, outs0 |-> EmptyOuts,
           knobs0 |-> [id \in ModuleIds |-> <<>>]]

----------------------------------------------------------------------------
(* The audio stage of Rack::step *)

AUDIO_BUFFER_SIZE == 512

\* the samples the step calls of module id pushed onto its audio_buffer
RECURSIVE Pushed(_, _, _, _)
Pushed(calls, id, st, j) ==
    IF j > Len(calls) THEN <<>>
    ELSE (IF calls[j].id = id /\ KindOf[id] = "AudioOut"
          THEN AudioOutPush(calls[j].knobs, st, calls[j].ins)
          ELSE <<>>) \o Pushed(calls, id, st, j + 1)

\* m.drain_audio_buffer(): what it returns
DrainAudioBuffer(kind, buf) == IF kind = "AudioOut" THEN buf ELSE <<>>

\* m.drain_audio_buffer(): the audio_buffer it leaves
AfterDrain(kind, buf) == <<>>

\* a fold body that overwrites instead of adding
MixOneOverwrite(ao, b) ==
    [i \in 1..(IF Len(ao) > Len(b) THEN Len(ao) ELSE Len(b)) |->
        IF i <= Len(b) THEN b[i] ELSE ao[i]]

\* the body of the fold: add b to ao position by position
MixOne(ao, b) ==
    [i \in 1..(IF Len(ao) > Len(b) THEN Len(ao) ELSE Len(b)) |->
        IF i <= Len(ao) /\ i <= Len(b)
        THEN <<FAdd(ao[i][1], b[i][1]), FAdd(ao[i][2], b[i][2])>>
        ELSE IF i <= Len(ao) THEN ao[i] ELSE b[i]] \o <<>>

\* the fold over the drained buffers of the first n modules of the map
RECURSIVE MixAll(_, _, _)
MixAll(bufs, ord, n) ==
    IF n = 0 THEN <<>>
    ELSE MixOne(MixAll(bufs, ord, n - 1),
                DrainAudioBuffer(KindOf[ord[n]], bufs[ord[n]]))

\* an output block that is written one sample late
OutputBlockLate(out, ao) ==
    LET b == out.buffer \o ao
    IN  IF Len(b) = AUDIO_BUFFER_SIZE + 1
        THEN [buffer |-> <<>>, written |-> out.written + 1]
        ELSE [buffer |-> b, written |-> out.written]

\* an output block that is written but not cleared
OutputBlockNoReset(out, ao) ==
    LET b == out.buffer \o ao
    IN  IF Len(b) = AUDIO_BUFFER_SIZE
        THEN [buffer |-> b, written |-> out.written + 1]
        ELSE [buffer |-> b, written |-> out.written]

\* extend the accumulator by ao; a full block is compressed and written
OutputBlock(out, ao) ==
    LET b == out.buffer \o ao
    IN  IF Len(b) = AUDIO_BUFFER_SIZE
        THEN [buffer |-> <<>>, written |-> out.written + 1]
        ELSE [buffer |-> b, written |-> out.written]

\* the calls of step of a tick, in the order they were made
StepEvents(calls) ==
    [j \in 1..Len(calls) |-> [op |-> "step", id |-> calls[j].id, buf |-> <<>>]]

\* the calls of extend_audio_buffer made with the drained input buffer
ExtendEvents(inp, ord) ==
    IF inp.present
    THEN [j \in 1..Len(ord) |-> [op |-> "extend", id |-> ord[j],
                                  buf |-> inp.buffer]]
    ELSE <<>>

\* inbuf.drain(..): the input buffer after the tick took its samples
DrainInput(inp) == IF inp.present THEN [inp EXCEPT !.buffer = <<>>] ELSE inp

\* an extend loop that stops after the first module of the map
ExtendFirstOnly(inp, ord) ==
    IF inp.present
    THEN [inp EXCEPT !.delivered[ord[1]] = @ \o inp.buffer]
    ELSE inp

\* for m in &mut self.modules { m.1.extend_audio_buffer(&buf) }: what every
\* module has been handed so far
Extend(inp, ord) ==
    IF inp.present
    THEN [inp EXCEPT !.delivered = [id \in ModuleIds |-> @[id] \o inp.buffer]]
    ELSE inp

\* what the input callback appends for one chunk of device samples
RECURSIVE Captured(_, _)
Captured(channels, data) ==
    IF channels = 1 THEN data
    ELSE IF Len(data) < 2 THEN <<>>
    ELSE <<(data[1] + data[2]) \div 2>> \o Captured(channels, SubSeq(data, 3, Len(data)))

\* the chunks the input device delivers
\* the chunks the input device delivers after n captured samples: the
\* samples of a stream are told apart by their value
CaptureData(channels, n) ==
    IF channels = 1 THEN {<<n + 1>>} ELSE {<<2 * n, 2 * n + 4>>}

\* captured: every sample the callback appended since the stream was
\* opened; delivered[id]: the samples handed to extend_audio_buffer of id
NoInput == [present |-> FALSE, channels |-> 0, buffer |-> <<>>, holder |-> "none",
            captured |-> <<>>, delivered |-> [id \in ModuleIds |-> <<>>]]

InputDevices ==
    {[NoInput EXCEPT !.present = TRUE, !.channels = c] : c \in {1, 2}}

NoOutput == [buffer |-> <<>>, written |-> 0]

NoStage == [ao |-> <<>>, drained |-> [id \in ModuleIds |-> <<>>],
            before |-> <<>>, wrote |-> 0, events |-> <<>>, waited |-> FALSE]

NoClock == [audio_out |-> FALSE, device |-> 0, sample_rate |-> 0,
            elapsed |-> 0, frames |-> 0, stamps |-> <<>>, before |-> <<>>,
            buffer |-> 0]

----------------------------------------------------------------------------
(* The state machine *)

NotParsed == [done |-> FALSE, ok |-> FALSE, key |-> <<>>]

----------------------------------------------------------------------------
(* KeyboardIn (src/src/modules/io/keyboard_in.rs) for the key KeyN.  A     *)
(* frame is one call of keyboard_input followed by calls of step.          *)

\* get_freq(KeyCode::KeyN, 0.0) = 440.0 * 2^(0 + 0/12)
get_freq == 440

\* ButtonInput::clear and then the key events of one frame, in order
RECURSIVE ButtonEvents(_, _)
ButtonEvents(b, ev) ==
    IF ev = <<>> THEN b
    ELSE ButtonEvents(
            IF ev[1] = "press"
            THEN (IF b.pressed THEN b
                  ELSE [b EXCEPT !.pressed = TRUE, !.just_pressed = TRUE])
            ELSE (IF b.pressed
                  THEN [b EXCEPT !.pressed = FALSE, !.just_released = TRUE]
                  ELSE b),
            Tail(ev))

\* the events a key can send in one frame: presses and releases alternate
FrameEvents(b) ==
    {ev \in UNION {[1..n -> {"press", "release"}] : n \in 0..MaxEvents} :
        \A j \in 1..Len(ev) :
            ev[j] = IF (j % 2 = 1) = b.pressed THEN "release" ELSE "press"}

\* keys with the state of every entry replaced by asr
SetAsr(keys, asr) == [j \in 1..Len(keys) |-> asr]

\* KeyboardIn::keyboard_input for the one valid key: the new self.keys
KeysAfterInput(keys, b) ==
    IF b.just_pressed THEN <<"Attack">>
    ELSE IF b.just_released THEN SetAsr(keys, "Release")
    ELSE IF b.pressed THEN SetAsr(keys, "Sustain")
    ELSE <<>>

\* KeyboardIn::step: the new self.keys and the returned vector
KeyboardInStep(keys) ==
    IF keys = <<>> THEN [keys |-> keys, out |-> <<0, 0>>]
    ELSE LET l == keys[Len(keys)]
         IN  CASE l = "Attack" ->
                    [keys |-> [keys EXCEPT ![Len(keys)] = "Sustain"],
                     out |-> <<get_freq, 1>>]
               [] l = "Sustain" -> [keys |-> keys, out |-> <<get_freq, 0>>]
               [] l = "Release" ->
                    [keys |-> SubSeq(keys, 1, Len(keys) - 1),
                     out |-> <<get_freq, -1>>]

----------------------------------------------------------------------------
(* Conway (src/src/modules/conway.rs) on a grid of WIDTH x HEIGHT cells.   *)
(* grid[y + 1][x + 1] is the source's grid[y][x].                          *)

WIDTH == 3          \* ComponentVideoOut::WIDTH (80 in the source)
HEIGHT == 3         \* ComponentVideoOut::HEIGHT (60 in the source)

Cell == {"Dead", "NewlyAlive", "Alive", "NewlyDead"}

AllDead == [y \in 1..HEIGHT |-> [x \in 1..WIDTH |-> "Dead"]]

\* the grids init_grid can build: rng.gen_bool(density) for every cell
SeedGrids == [1..HEIGHT -> [1..WIDTH -> {"Dead", "Alive"}]]

\* get_neighbors(grid, x, y): the cells around (x, y) that are Cell::Alive
get_neighbors(grid, x, y) ==
    LET xm == IF x > 0 THEN x - 1 ELSE WIDTH - 1
        ym == IF y > 0 THEN y - 1 ELSE HEIGHT - 1
        xp == IF x < WIDTH - 1 THEN x + 1 ELSE 0
        yp == IF y < HEIGHT - 1 THEN y + 1 ELSE 0
        one(yy, xx) == IF grid[yy + 1][xx + 1] = "Alive" THEN 1 ELSE 0
    IN  one(ym, xm) + one(ym, x) + one(ym, xp)
        + one(y, xm) + one(y, xp)
        + one(yp, xm) + one(yp, x) + one(yp, xp)

\* old_grid[j][i] with NewlyAlive turned into Alive and NewlyDead into Dead
Settle(c) ==
    CASE c = "NewlyAlive" -> "Alive"
      [] c = "NewlyDead" -> "Dead"
      [] OTHER -> c

\* the match on get_neighbors: the new cell for a settled cell c
Rule(c, n) ==
    IF n \in {2, 3} /\ c = "Alive" THEN "Alive"
    ELSE IF n = 3 /\ c = "Dead" THEN "NewlyAlive"
    ELSE IF c = "Alive" THEN "NewlyDead"
    ELSE "Dead"

\* the loops over j and i from cell number k on: old_grid is settled in
\* place, cell by cell, while the neighbours are counted in it
RECURSIVE Generation(_, _, _)
Generation(old_grid, grid, k) ==
    IF k = WIDTH * HEIGHT THEN grid
    ELSE LET i == k % WIDTH
             j == k \div WIDTH
             settled == [old_grid EXCEPT ![j + 1][i + 1] = Settle(@)]
             c == Rule(settled[j + 1][i + 1], get_neighbors(settled, i, j))
         IN  Generation(settled, [grid EXCEPT ![j + 1][i + 1] = c], k + 1)

\* vec![self.knobs[..]] for the cell: knobs are 0, 1, 2, 3
CellSignal(c) ==
    CASE c = "Dead" -> 0
      [] c = "NewlyAlive" -> 1
      [] c = "Alive" -> 2
      [] c = "NewlyDead" -> 3

\* grid: self.grid ("None" before init_grid); scan: self.scan; seeded: the
\* grid init_grid builds from self.seed and self.density; gens: generations
\* computed so far; out: the last returned value
InitConway(G) ==
    /\ conway \in {[grid |-> "None", scan |-> 0, seeded |-> g, gens |-> 0,
                    out |-> <<>>, loaded |-> FALSE] : g \in G}

\* Conway::step with ins = <<reset>>
ConwayStep(reset) ==
    /\ conway.gens < MaxGens
    /\ LET doReset == ~IsNan(reset) /\ reset # 0
           fresh == doReset \/ ~conway.loaded
           g0 == IF fresh THEN conway.seeded ELSE conway.grid
           scan0 == IF doReset THEN 0 ELSE conway.scan
           x == scan0 % WIDTH
           y == scan0 \div WIDTH
           scan1 == (scan0 + 1) % (WIDTH * HEIGHT)
       IN  conway' = [conway EXCEPT
                         !.loaded = TRUE,
                         !.out = <<CellSignal(g0[y + 1][x + 1])>>,
                         !.scan = scan1,
                         !.grid = IF scan1 = 0
                                  THEN Generation(g0, AllDead, 0)
                                  ELSE g0,
                         !.gens = IF scan1 = 0 THEN conway.gens + 1
                                  ELSE conway.gens]
    /\ UNCHANGED <<rackVars, audioVars, otherVars, keyboard_in, buttons,
                   envelope_generator, looper, midi_in>>

NextConway == \E reset \in {NaN, 0, 1} : ConwayStep(reset)

----------------------------------------------------------------------------
(* EnvelopeGenerator (src/src/modules/envelope_generator.rs).  Time is in  *)
(* whole units; the knobs and inputs are chosen so that every quotient of  *)
(* the level computation is exact or is clamped to the sustain level.      *)

None == [some |-> FALSE, v |-> 0]
Some(v) == [some |-> TRUE, v |-> v]

\* the arm Some(at), Some(rt) that leaves release_timestamp set on a trigger
ReleasedArmKeepRelease(e, time, asr, x) ==
    IF asr = 1 THEN [e EXCEPT !.attack_timestamp = Some(time), !.y = 0]
    ELSE [e EXCEPT !.y = 0]

\* the arm Some(at), Some(rt) of EnvelopeGenerator::step
ReleasedArm(e, time, asr, x) ==
    LET release == e.knobs[4]
        sustain == e.knobs[3]
        rdt == time - e.release_timestamp.v
        level == IF x = 0
                 THEN (IF e.last_level.some THEN e.last_level.v * sustain
                       ELSE sustain)
                 ELSE x * sustain
    IN  IF asr = 1
        THEN [e EXCEPT !.attack_timestamp = Some(time),
                       !.release_timestamp = None, !.y = 0]
        ELSE IF asr = 0 /\ rdt < release
        THEN [e EXCEPT !.y = level - ((rdt * level) \div release)]
        ELSE [e EXCEPT !.y = 0]

\* the arm Some(at), None of EnvelopeGenerator::step
AttackedArm(e, time, asr, x) ==
    LET attack == e.knobs[1]
        decay == e.knobs[2]
        sustain == e.knobs[3]
        adt == time - e.attack_timestamp.v
        ddt == adt - attack
        slope == x + ((ddt * (sustain - x)) \div decay)
    IN  IF asr = 1 THEN [e EXCEPT !.attack_timestamp = Some(time), !.y = 0]
        ELSE IF asr = -1
        THEN [e EXCEPT !.release_timestamp = Some(time), !.y = 0]
        ELSE IF asr = 0
        THEN [e EXCEPT !.y = IF adt < attack THEN (adt * x) \div attack
                             ELSE IF ddt < decay
                             THEN (IF slope < sustain THEN sustain ELSE slope)
                             ELSE sustain]
        ELSE [e EXCEPT !.y = 0]

\* the arm None of EnvelopeGenerator::step; Some(_rt) is unreachable!()
IdleArm(e, time, asr, x) ==
    IF e.release_timestamp.some THEN [e EXCEPT !.panicked = TRUE]
    ELSE IF asr = 1 THEN [e EXCEPT !.attack_timestamp = Some(time), !.y = 0]
    ELSE [e EXCEPT !.y = 0]

\* EnvelopeGenerator::step(time, _, ins): the module after the call
EnvelopeStep(e, time, ins) ==
    LET x == IF IsNan(ins[1]) THEN 1 ELSE ins[1]
        asr == ins[2]
        arm == IF e.attack_timestamp.some
               THEN (IF e.release_timestamp.some
                     THEN ReleasedArm(e, time, asr, x)
                     ELSE AttackedArm(e, time, asr, x))
               ELSE IdleArm(e, time, asr, x)
    IN  IF arm.panicked THEN arm
        ELSE [arm EXCEPT !.last_level = IF x # 0 THEN Some(x) ELSE @]

\* attack_timestamp, release_timestamp, last_level, knobs: the fields of
\* the module; y: the value returned last; time, ins: the arguments of the
\* last call; before: the two timestamps before the last call
InitEnvelopeGenerator ==
    envelope_generator =
        [attack_timestamp |-> None, release_timestamp |-> None,
         last_level |-> None, knobs |-> <<1, 2, 2, 2>>, y |-> 0,
         panicked |-> FALSE, time |-> 0, ins |-> <<>>,
         before |-> <<None, None>>]

\* one call of EnvelopeGenerator::step, one time unit after the last one
EnvelopeGeneratorStep(ins) ==
    /\ envelope_generator.time < MaxTime
    /\ ~envelope_generator.panicked
    /\ LET time == envelope_generator.time + 1
           e == EnvelopeStep(envelope_generator, time, ins)
       IN  envelope_generator' =
               [e EXCEPT !.time = time, !.ins = ins,
                         !.before = <<envelope_generator.attack_timestamp,
                                      envelope_generator.release_timestamp>>]
    /\ UNCHANGED <<rackVars, audioVars, otherVars, keyboard_in, buttons, conway,
                   looper, midi_in>>

\* the level input and the trigger input of one call
EnvelopeInputs == {<<x, asr>> : x \in {NaN, 0, 4}, asr \in {1, 0, -1, NaN, 2}}

NextEnvelope == \E ins \in EnvelopeInputs : EnvelopeGeneratorStep(ins)

----------------------------------------------------------------------------
(* Looper (src/src/modules/audio/looper.rs).  The duration knob is held in *)
(* samples: the knob value v stands for v / 44100 seconds, so that         *)
(* (duration * 44100.0) as usize is v.                                     *)

\* the values of the duration knob, within the documented [0.0, inf)
Durations == 0..MaxDuration

\* let d = (duration * 44100.0) as usize
LooperD(kn) == kn[1]

\* the if / else if on buffer.len(): the buffer and idx before the read
LooperFill(l, d, in) ==
    IF Len(l.buffer) > d
    THEN [l EXCEPT !.buffer = SubSeq(l.buffer, 1, d),
                   !.idx = IF l.idx > d THEN 0 ELSE l.idx]
    ELSE IF Len(l.buffer) < d
    THEN [l EXCEPT !.buffer = Append(l.buffer, in)]
    ELSE l

\* Looper::step(_, _, ins): the read of self.buffer[self.idx] and the
\* remainder by d panic when idx is out of bounds or d is 0
LooperStepResult(l0, in) ==
    LET d == LooperD(l0.knobs)
        l == LooperFill(l0, d, in)
        r == [l EXCEPT !.read = [idx |-> l.idx, len |-> Len(l.buffer), d |-> d]]
    IN  IF r.idx >= Len(r.buffer) THEN [r EXCEPT !.panicked = TRUE]
        ELSE IF d = 0 THEN [r EXCEPT !.panicked = TRUE]
        ELSE [r EXCEPT !.out = FMul(r.buffer[r.idx + 1], r.knobs[2]),
                       !.idx = (r.idx + 1) % d]

\* buffer, idx, knobs: the fields of the module; out: the value returned
\* last; read: the index, the buffer length and d of the last read; steps:
\* calls of step so far
InitLooper(D) ==
    looper \in {[buffer |-> <<>>, idx |-> 0, knobs |-> <<v, 1>>, out |-> 0,
                 read |-> [idx |-> 0, len |-> 1, d |-> 1],
                 panicked |-> FALSE, steps |-> 0] : v \in D}

\* Looper::set_knob(0, val)
LooperSetKnob(val) ==
    /\ ~looper.panicked
    /\ looper' = [looper EXCEPT !.knobs[1] = val]
    /\ UNCHANGED <<rackVars, audioVars, otherVars, keyboard_in, buttons, conway,
                   envelope_generator, midi_in>>

\* one call of Looper::step
LooperStep(in) ==
    /\ ~looper.panicked
    /\ looper.steps < MaxLooperSteps
    /\ looper' = [LooperStepResult(looper, in) EXCEPT !.steps = looper.steps + 1]
    /\ UNCHANGED <<rackVars, audioVars, otherVars, keyboard_in, buttons, conway,
                   envelope_generator, midi_in>>

NextLooper ==
    \/ \E val \in Durations : LooperSetKnob(val)
    \/ \E in \in {0, 1} : LooperStep(in)

----------------------------------------------------------------------------
(* MidiIn (src/src/modules/io/midi_in.rs): the connection callback runs on *)
(* the MIDI thread and MidiIn::step on the engine thread; both take the    *)
(* mutex of midi_context.events with try_lock.                             *)

\* the channel messages of the model: key 69 or 81 at full velocity, and
\* controller 1 at full value
MidiMessages ==
    {[kind |-> "NoteOn", key |-> 69, val |-> 127],
     [kind |-> "NoteOn", key |-> 81, val |-> 127],
     [kind |-> "NoteOff", key |-> 69, val |-> 0],
     [kind |-> "Controller", key |-> 1, val |-> 127]}

\* 2^((key - 69) / 12 + bend) * 440 for bend = 0
MidiFreq(key) == IF key = 69 THEN 440 ELSE 880

\* as_int() as f32 / u7max for the values 0 and 127
U7Ratio(v) == IF v = 127 THEN 1 ELSE 0

\* self.notes.extract_if(.., |(k, _d)| *k == key)
RECURSIVE WithoutKey(_, _)
WithoutKey(notes, key) ==
    IF notes = <<>> THEN <<>>
    ELSE (IF notes[1][1] = key THEN <<>> ELSE <<notes[1]>>)
         \o WithoutKey(Tail(notes), key)

\* the body of `if let Ok(mut events) = ...try_lock()` in MidiIn::step:
\* the module after it, with the returned vector in out
MidiStepLocked(m) ==
    LET top == IF m.notes = <<>> THEN <<0, 0>> ELSE m.notes[Len(m.notes)]
        notes0 == IF m.notes = <<>> THEN <<>>
                  ELSE SubSeq(m.notes, 1, Len(m.notes) - 1)
        has == m.events # <<>>
        msg == IF has THEN m.events[1].msg ELSE [kind |-> "none", key |-> 0, val |-> 0]
        notes1 == CASE msg.kind = "NoteOff" ->
                        IF top[1] = msg.key THEN notes0
                        ELSE WithoutKey(notes0, msg.key)
                    [] msg.kind = "NoteOn" ->
                        IF top[1] > 0 /\ top[2] > 0 /\ top[1] # msg.key
                        THEN Append(notes0, top) ELSE notes0
                    [] OTHER -> notes0
        note == CASE msg.kind = "NoteOff" ->
                        IF top[1] = msg.key THEN <<top[1], 0>> ELSE top
                  [] msg.kind = "NoteOn" -> <<msg.key, msg.val>>
                  [] OTHER -> top
        sounding == note[1] > 0 /\ note[2] > 0
        controllers1 == IF msg.kind = "Controller"
                        THEN [m.controllers EXCEPT ![msg.key] = msg.val]
                        ELSE m.controllers
    IN  [m EXCEPT
            !.events = IF has THEN Tail(m.events) ELSE <<>>,
            !.processed = IF has THEN Append(m.processed, m.events[1]) ELSE @,
            !.notes = IF sounding THEN Append(notes1, note) ELSE notes1,
            !.controllers = controllers1,
            !.out = <<IF sounding THEN MidiFreq(note[1]) ELSE 0, U7Ratio(note[2])>>
                    \o [c \in 1..8 |-> U7Ratio(controllers1[c])]]

\* events, notes, controllers: the fields of the module; holder: the
\* thread that holds the mutex of events; step, callback: where the two
\* threads are; message: the message the callback is about to push;
\* received: every message the callback was called with, numbered in
\* arrival order; processed: the messages step popped; out: the vector
\* returned last; steps: calls of step so far
InitMidiIn ==
    midi_in = [events |-> <<>>, notes |-> <<>>,
               controllers |-> [c \in 1..8 |-> 0],
               holder |-> "none", step |-> "idle", callback |-> "idle",
               message |-> <<>>, received |-> <<>>, processed |-> <<>>,
               out |-> <<>>, steps |-> 0]

\* the connection callback is called with a channel message: try_lock
MidiCallback(msg) ==
    /\ midi_in.callback = "idle"
    /\ Len(midi_in.received) < MaxMessages
    /\ LET e == [n |-> Len(midi_in.received) + 1, msg |-> msg]
       IN  midi_in' =
               IF midi_in.holder = "none"
               THEN [midi_in EXCEPT !.received = Append(@, e),
                                    !.holder = "callback",
                                    !.callback = "push",
                                    !.message = <<e>>]
               ELSE [midi_in EXCEPT !.received = Append(@, e)]
    /\ UNCHANGED <<rackVars, audioVars, otherVars, keyboard_in, buttons, conway,
                   envelope_generator, looper>>

\* the callback pushes the message and drops the guard
MidiCallbackPush ==
    /\ midi_in.callback = "push"
    /\ midi_in' = [midi_in EXCEPT !.events = @ \o midi_in.message,
                                  !.message = <<>>,
                                  !.holder = "none",
                                  !.callback = "idle"]
    /\ UNCHANGED <<rackVars, audioVars, otherVars, keyboard_in, buttons, conway,
                   envelope_generator, looper>>

\* MidiIn::step up to its try_lock
MidiStepBegin(st) ==
    /\ midi_in.step = "idle"
    /\ midi_in.steps < MaxMidiSteps
    /\ midi_in' =
           IF st = "Video" \/ midi_in.holder # "none"
           THEN [midi_in EXCEPT !.out = [c \in 1..10 |-> NaN],
                                !.steps = @ + 1]
           ELSE [midi_in EXCEPT !.holder = "step", !.step = "locked",
                                !.steps = @ + 1]
    /\ UNCHANGED <<rackVars, audioVars, otherVars, keyboard_in, buttons, conway,
                   envelope_generator, looper>>

\* MidiIn::step from the pop to the end of the guard
MidiStepEnd ==
    /\ midi_in.step = "locked"
    /\ midi_in' = [MidiStepLocked(midi_in) EXCEPT !.holder = "none",
                                                  !.step = "idle"]
    /\ UNCHANGED <<rackVars, audioVars, otherVars, keyboard_in, buttons, conway,
                   envelope_generator, looper>>

NextMidi ==
    \/ \E msg \in MidiMessages : MidiCallback(msg)
    \/ MidiCallbackPush
    \/ \E st \in StepType : MidiStepBegin(st)
    \/ MidiStepEnd

NoButtons == [pressed |-> FALSE, just_pressed |-> FALSE, just_released |-> FALSE]

\* keys: self.keys (the Asr of each entry, all for KeyN); out: the vector
\* of the last step; steps: steps since keyboard_input; frames: frames so
\* far; open: a 1.0 was returned and no -1.0 since, before and after the
\* last step
InitKeyboardIn ==
    /\ keyboard_in = [keys |-> <<>>, out |-> <<>>, steps |-> 0, frames |-> 0,
                      open |-> FALSE, wasOpen |-> FALSE]
    /\ buttons = NoButtons

InitModules ==
    /\ InitKeyboardIn
    /\ InitConway({AllDead})
    /\ InitEnvelopeGenerator
    /\ InitLooper({1})
    /\ InitMidiIn

\* one frame begins: Bevy updates ButtonInput, then Rack::keyboard_input
keyboard_input(ev) ==
    /\ keyboard_in.frames < MaxFrames
    /\ keyboard_in.frames > 0 => keyboard_in.steps >= 1
    /\ buttons' = ButtonEvents([buttons EXCEPT !.just_pressed = FALSE,
                                               !.just_released = FALSE], ev)
    /\ keyboard_in' = [keyboard_in EXCEPT
                          !.keys = KeysAfterInput(keyboard_in.keys, buttons'),
                          !.steps = 0,
                          !.frames = keyboard_in.frames + 1]
    /\ UNCHANGED <<rackVars, audioVars, otherVars, conway, envelope_generator,
                   looper, midi_in>>

\* one call of KeyboardIn::step
KeyboardStep ==
    /\ keyboard_in.frames > 0
    /\ keyboard_in.steps < MaxSteps
    /\ LET r == KeyboardInStep(keyboard_in.keys)
       IN  keyboard_in' = [keyboard_in EXCEPT
                              !.keys = r.keys,
                              !.out = r.out,
                              !.steps = keyboard_in.steps + 1,
                              !.wasOpen = keyboard_in.open,
                              !.open = IF r.out[2] = 1 THEN TRUE
                                       ELSE IF r.out[2] = -1 THEN FALSE
                                       ELSE keyboard_in.open]
    /\ UNCHANGED <<rackVars, audioVars, otherVars, buttons, conway,
                   envelope_generator, looper, midi_in>>

NextKeyboard ==
    \/ \E ev \in FrameEvents(buttons) : keyboard_input(ev)
    \/ KeyboardStep

\* a rack as loaded: modules M, patch tables T, map orders O, input devices
\* I, time bases C and address strings A
RackLoaded(M, T, O, I, C, A) ==
    /\ modules = M
    /\ patches \in T
    /\ order \in O
    /\ knobs = [id \in ModuleIds |-> InitKnobs(KindOf[id])]
    /\ outs = EmptyOuts
    /\ audio_context = FALSE
    /\ tick = 0
    /\ last = NoTick
    /\ prev = NoTick
    /\ is_init = [id \in ModuleIds |-> TRUE]
    /\ audio_buffer = [id \in ModuleIds |-> <<>>]
    /\ output = NoOutput
    /\ input \in I
    /\ pc = "idle"
    /\ pending = NoTick
    /\ stage = NoStage
    /\ clock \in C
    /\ address \in A
    /\ parsed = NotParsed

InitRack(M, T, O, I, C, A) == InitModules /\ RackLoaded(M, T, O, I, C, A)

Init == InitRack(ClassicRack, PatchTables, Orders, {NoInput}, {NoClock}, {<<>>})

InitKeyboard ==
    InitRack(ClassicRack, {{}}, {<<1, 2, 3>>}, {NoInput}, {NoClock}, {<<>>})

SpecKeyboard == InitKeyboard /\ [][NextKeyboard]_vars

InitConwayRack ==
    /\ RackLoaded(ClassicRack, {{}}, {<<1, 2, 3>>}, {NoInput}, {NoClock}, {<<>>})
    /\ InitKeyboardIn
    /\ InitConway(SeedGrids)
    /\ InitEnvelopeGenerator
    /\ InitLooper({1})
    /\ InitMidiIn

SpecConway == InitConwayRack /\ [][NextConway]_vars

InitLooperRack ==
    /\ RackLoaded(ClassicRack, {{}}, {<<1, 2, 3>>}, {NoInput}, {NoClock}, {<<>>})
    /\ InitKeyboardIn
    /\ InitConway({AllDead})
    /\ InitEnvelopeGenerator
    /\ InitLooper(Durations)
    /\ InitMidiIn

SpecLooper == InitLooperRack /\ [][NextLooper]_vars

InitMidi ==
    InitRack(ClassicRack, {{}}, {<<1, 2, 3>>}, {NoInput}, {NoClock}, {<<>>})

SpecMidi == InitMidi /\ [][NextMidi]_vars

InitEnvelope ==
    InitRack(ClassicRack, {{}}, {<<1, 2, 3>>}, {NoInput}, {NoClock}, {<<>>})

SpecEnvelope == InitEnvelope /\ [][NextEnvelope]_vars

\* a rack is explored for MaxTicks ticks, a rack with an AudioOut until it
\* has written MaxBlocks blocks
Budget ==
    \/ tick < MaxTicks
    \/ /\ \E id \in ModuleIds : KindOf[id] = "AudioOut"
       /\ output.written < MaxBlocks

\* the audio buffers of the modules once the calls of r have pushed
Buffers(r, st) ==
    [id \in ModuleIds |-> audio_buffer[id] \o Pushed(r.calls, id, st, 1)]
        @@ <<>>

\* the part of Rack::step from the mix to the output block (rack.rs:260-290)
AudioStage(r, st) ==
    LET bufs == Buffers(r, st)
        ao == MixAll(bufs, order, Len(order))
        init == IF audio_context THEN <<>>
                ELSE <<[op |-> "init_audio", id |-> 0, buf |-> <<>>]>>
    IN  /\ audio_buffer' = [id \in ModuleIds |->
                               AfterDrain(KindOf[id], bufs[id])]
        /\ output' = OutputBlock(output, ao)
        /\ stage' = [ao |-> ao, drained |-> bufs, before |-> output.buffer,
                     wrote |-> OutputBlock(output, ao).written - output.written,
                     waited |-> input.present /\ input.holder = "callback",
                     events |-> init \o StepEvents(r.calls) \o
                                (IF input.holder = "callback" THEN <<>>
                                 ELSE ExtendEvents(input, order))]

\* Rack::step(time, st); sample is what the noise function yields at time.
\* When the input callback holds the mutex the tick stops at the lock.
RackStep(st, sample) ==
    /\ pc = "idle"
    /\ Budget
    /\ audio_context' = TRUE
    /\ IF input.present /\ input.holder = "callback"
       THEN /\ pending' = StepResult(IF audio_context THEN outs ELSE EmptyOuts,
                                     knobs, patches, order, st, sample)
            /\ AudioStage(pending', st)
            /\ pc' = "lock"
            /\ UNCHANGED <<outs, knobs, last, prev, tick, input>>
       ELSE /\ last' = StepResult(IF audio_context THEN outs ELSE EmptyOuts,
                                  knobs, patches, order, st, sample)
            /\ AudioStage(last', st)
            /\ pc' = "idle"
            /\ pending' = NoTick
            /\ input' = DrainInput(Extend(input, order))
            /\ outs' = last'.outs
            /\ knobs' = last'.knobs
            /\ prev' = last
            /\ tick' = IF tick < MaxTicks THEN tick + 1 ELSE tick
    /\ UNCHANGED <<moduleVars, patches, order, modules, is_init, clock, address, parsed>>

\* the rest of Rack::step once input.buffer.lock() returns (rack.rs:294)
RackStepResume ==
    /\ pc = "lock"
    /\ input.holder = "none"
    /\ pc' = "idle"
    /\ stage' = [stage EXCEPT !.events = @ \o ExtendEvents(input, order)]
    /\ input' = DrainInput(Extend(input, order))
    /\ last' = pending
    /\ outs' = pending.outs
    /\ knobs' = pending.knobs
    /\ prev' = last
    /\ tick' = IF tick < MaxTicks THEN tick + 1 ELSE tick
    /\ pending' = NoTick
    /\ UNCHANGED <<moduleVars, patches, order, modules, is_init, audio_context,
                   audio_buffer, output, clock, address, parsed>>

\* the input callback takes the mutex (rack.rs:106)
InputCallbackLock ==
    /\ audio_context
    /\ input.present
    /\ input.holder = "none"
    /\ Len(input.buffer) < MaxCaptured
    /\ input' = [input EXCEPT !.holder = "callback"]
    /\ UNCHANGED <<moduleVars, rackVars, audio_buffer, output, pc, pending, stage,
                   otherVars>>

\* the input callback appends its samples and releases the mutex
InputCallbackExtend(data) ==
    /\ input.holder = "callback"
    /\ input' = [input EXCEPT
                    !.buffer = @ \o Captured(input.channels, data),
                    !.captured = @ \o Captured(input.channels, data),
                    !.holder = "none"]
    /\ UNCHANGED <<moduleVars, rackVars, audio_buffer, output, pc, pending, stage,
                   otherVars>>

\* an exit that keeps the outs cache
ExitOutsKeep(o) == o

\* self.outs.clear()
ExitOuts(o) == EmptyOuts

\* Rack::exit: the exit hook of every module, then the audio context and the
\* outs cache are dropped
Exit ==
    /\ pc = "idle"
    /\ is_init' = [id \in ModuleIds |-> FALSE]
    /\ audio_context' = FALSE
    /\ outs' = ExitOuts(outs)
    /\ output' = [output EXCEPT !.buffer = <<>>]
    /\ input' = [input EXCEPT !.buffer = <<>>, !.holder = "none",
                               !.captured = <<>>,
                               !.delivered = [id \in ModuleIds |-> <<>>]]
    /\ last' = NoTick
    /\ prev' = NoTick
    /\ stage' = NoStage
    /\ UNCHANGED <<moduleVars, patches, order, knobs, tick, modules, audio_buffer, pc,
                   pending, otherVars>>

Next == \E st \in StepType, sample \in NoiseSamples : RackStep(st, sample)

Spec == Init /\ [][Next]_vars

\* racks with a MultiSampler
InitSampler ==
    InitRack(SamplerRack, TablesUpTo(1), Orders, {NoInput}, {NoClock}, {<<>>})

SpecSampler == InitSampler /\ [][Next]_vars

\* racks with AudioOut modules: the Noise output patched to their inputs
AudioEdges ==
    {<<Key(1, "Output", 0), Key(2, "Input", 0)>>,
     <<Key(1, "Output", 0), Key(3, "Input", 0)>>,
     <<Key(1, "Output", 0), Key(3, "Input", 1)>>}

AudioTables == {{}, AudioEdges, AudioEdges \ {<<Key(1, "Output", 0), Key(3, "Input", 0)>>}}

AudioOrders == {<<1, 2, 3>>, <<3, 1, 2>>}

InitAudio ==
    InitRack(AudioRack, AudioTables, AudioOrders, {NoInput}, {NoClock}, {<<>>})

SpecAudio == InitAudio /\ [][Next]_vars

\* racks with an input device, the input callback thread and Rack::exit
CaptureTables ==
    {{}, {<<Key(2, "Output", 0), Key(2, "Input", 0)>>},
     {<<Key(1, "Output", 0), Key(2, "Knob", 0)>>},
     {<<Key(1, "Output", 0), Key(2, "Input", 0)>>}}

CaptureOrders == {<<1, 2, 3>>, <<3, 2, 1>>}

InitCapture ==
    InitRack(ClassicRack, CaptureTables, CaptureOrders, InputDevices,
             {NoClock}, {<<>>})

NextCapture ==
    \/ \E st \in StepType, sample \in NoiseSamples : RackStep(st, sample)
    \/ RackStepResume
    \/ InputCallbackLock
    \/ \E data \in CaptureData(input.channels, Len(input.captured)) :
            InputCallbackExtend(data)
    \/ Exit

SpecCapture == InitCapture /\ [][NextCapture]_vars

\* the engine ticks and the input callback of one audio context
NextDeliver ==
    \/ \E st \in StepType, sample \in NoiseSamples : RackStep(st, sample)
    \/ RackStepResume
    \/ InputCallbackLock
    \/ \E data \in CaptureData(input.channels, Len(input.captured)) :
            InputCallbackExtend(data)

SpecDeliver == InitCapture /\ [][NextDeliver]_vars

----------------------------------------------------------------------------
(* Reading the record of a call of Rack::step *)

\* the positions in t.calls at which module id was stepped
CallsOf(t, id) == {j \in 1..Len(t.calls) : t.calls[j].id = id}

\* position of the call of module id in t.calls
Pos(t, id) == CHOOSE j \in 1..Len(t.calls) : t.calls[j].id = id

\* the call of m.step made for module id
CallOf(t, id) == t.calls[Pos(t, id)]

\* the input position a patch p delivers to, in the call of its destination
Received(t, p) == CallOf(t, p[2][1]).ins[p[2][3] + 1]

\* the value the source module of p returned for the source output
Produced(t, p) == CallOf(t, p[1][1]).outs[p[1][3] + 1]

\* the source of p is an output its module has
LiveSource(p) == p[1][3] < outputs(KindOf[p[1][1]])

SelfLoop(id) == <<Key(id, "Output", 0), Key(id, "Input", 0)>>

----------------------------------------------------------------------------
(* C1: one call of Rack::step terminates and steps every module exactly    *)
(* once, for every patch table (cycles through Input and Knob ports,       *)
(* self-loops, sources that never produce a value).                        *)
C1_StepsEveryModuleOnce ==
    tick > 0 =>
        /\ last.finished
        /\ \A id \in ModuleIds : Cardinality(CallsOf(last, id)) = 1

\* a tick of a rack with a cycle through an Input and a Knob port completed
C1_Witness ==
    /\ tick > 0
    /\ patches = {<<Key(2, "Output", 0), Key(3, "Input", 0)>>,
                  <<Key(3, "Output", 0), Key(2, "Knob", 0)>>}
    /\ last.finished
    /\ Len(last.calls) = 3

(* C2: every input index that is not the destination of a patch holds NaN  *)
(* in the vector passed to step.  The code passes 0.0 to a module that has *)
(* inputs and no inbound patch.                                            *)
C2_UnpatchedInputIsNaN ==
    tick > 0 =>
        \A j \in 1..Len(last.calls) :
            LET c == last.calls[j]
            IN  \A i \in 1..Len(c.ins) :
                    (~\E p \in patches : p[2] = Key(c.id, "Input", i - 1))
                        => IsNan(c.ins[i])

(* C3: an output patched to Input ports of two different modules delivers  *)
(* the same value to both in every tick.                                   *)
C3_FanOutIdentical ==
    tick > 0 =>
        \A p \in patches, q \in patches :
            (/\ p[1] = q[1]
             /\ p[2][2] = "Input" /\ q[2][2] = "Input"
             /\ p[2][1] # q[2][1])
                => Received(last, p) = Received(last, q)

----------------------------------------------------------------------------
\* the patches from an output of a module to a knob of a different module
CrossKnobPatches ==
    {p \in patches : p[2][2] = "Knob" /\ p[1][1] # p[2][1] /\ LiveSource(p)}

\* the knob value the destination of p had when it was stepped
Observed(t, p) == CallOf(t, p[2][1]).knobs[p[2][3] + 1]

\* the source of p had a value that was not NaN at the end of tick t
HadValue(t, p) == p[1] \in DOMAIN t.outsEnd /\ ~IsNan(t.outsEnd[p[1]])

\* the owner of the knob has inputs and was stepped after the source of p
SteppedAfterSource(t, p) ==
    /\ inputs(KindOf[p[2][1]]) > 0
    /\ Pos(t, p[1][1]) < Pos(t, p[2][1])

----------------------------------------------------------------------------
\* the patches from an output of a module without inputs to an Input port
ZeroInputSourcePatches ==
    {p \in patches : /\ inputs(KindOf[p[1][1]]) = 0
                     /\ LiveSource(p)
                     /\ p[2][2] = "Input"}

(* C5: for a patch from output o of a module X without inputs to input i   *)
(* of Y, Y.step receives at position i the value X.step returned in the    *)
(* same tick, and outs[X,o] holds it after the tick unless it is NaN.      *)
C5_ZeroInputSourceIsFresh ==
    tick > 0 =>
        \A p \in ZeroInputSourcePatches :
            /\ Received(last, p) = Produced(last, p)
            /\ ~IsNan(Produced(last, p)) =>
                    /\ p[1] \in DOMAIN outs
                    /\ outs[p[1]] = Produced(last, p)

\* in a warm tick the destination received a value that differs from the
\* one the source produced in the tick before
C5_Witness ==
    /\ tick >= 2
    /\ \E p \in ZeroInputSourcePatches :
        /\ Received(last, p) = Produced(last, p)
        /\ Produced(last, p) # Produced(prev, p)
        /\ outs[p[1]] = Produced(last, p)

----------------------------------------------------------------------------
\* the racks whose only patch is output 0 of a module to its own input 0
SelfLoopOnly(id) == patches = {SelfLoop(id)} /\ inputs(KindOf[id]) > 0

(* C6: a module Z whose output 0 is patched to its own input 0 receives    *)
(* NaN in tick 1 and, in every later tick, the value it produced in the    *)
(* tick before unless that was NaN; every tick completes.                  *)
C6_SelfFeedback ==
    \A id \in ModuleIds :
        (SelfLoopOnly(id) /\ tick > 0) =>
            /\ last.finished
            /\ tick = 1 => IsNan(CallOf(last, id).ins[1])
            /\ (tick >= 2 /\ ~IsNan(CallOf(prev, id).outs[1])) =>
                    CallOf(last, id).ins[1] = CallOf(prev, id).outs[1]

\* a self-patched module received in tick 2 the value it produced in tick 1
C6_Witness ==
    \E id \in ModuleIds :
        /\ SelfLoopOnly(id)
        /\ tick = 2
        /\ ~IsNan(CallOf(prev, id).outs[1])
        /\ IsNan(CallOf(prev, id).ins[1])
        /\ CallOf(last, id).ins[1] = CallOf(prev, id).outs[1]

----------------------------------------------------------------------------
\* the input vectors of two ticks agree for every module
SameInputs(t, u) ==
    \A id \in ModuleIds : CallOf(t, id).ins = CallOf(u, id).ins

(* C7: a tick is deterministic: from the same knobs, patches and outs and  *)
(* with the same time and rate, the input vectors and the resulting outs   *)
(* are the same for every iteration order of the module map.               *)
C7_OrderIndependent ==
    [][\A st \in StepType, sample \in NoiseSamples, ord \in Orders :
        LET o0 == IF audio_context THEN outs ELSE EmptyOuts
        IN  (last' = StepResult(o0, knobs, patches, order, st, sample)) =>
                LET r == StepResult(o0, knobs, patches, ord, st, sample)
                IN  r.outs = outs' /\ SameInputs(r, last')]_vars

(* C8: NaN placeholders are inserted into outs only after a scan that      *)
(* stepped no module.                                                      *)
C8_PlaceholdersOnlyAfterIdleScan ==
    tick > 0 =>
        \A j \in 1..Len(last.scans) :
            last.scans[j].inserted # {} => last.scans[j].steps = 0

----------------------------------------------------------------------------
\* every output of call c that is not NaN is in o with the value returned
Recorded(c, o) ==
    \A i \in 1..Len(c.outs) :
        ~IsNan(c.outs[i]) =>
            /\ Key(c.id, "Output", i - 1) \in DOMAIN o
            /\ o[Key(c.id, "Output", i - 1)] = c.outs[i]

(* C9: after a tick outs holds no NaN, and every output value of the tick  *)
(* that is not NaN is in outs, unchanged, when the next tick starts.       *)
C9_OutsKeepsValuesNotNaN ==
    /\ \A k \in DOMAIN outs : ~IsNan(outs[k])
    /\ tick > 0 => \A j \in 1..Len(last.calls) : Recorded(last.calls[j], outs)
    /\ tick >= 2 =>
            \A j \in 1..Len(prev.calls) : Recorded(prev.calls[j], last.outs0)

\* a tick that held NaN entries before the purge and ended with a value
C9_Witness ==
    /\ tick >= 2
    /\ \E k \in DOMAIN last.outsEnd : IsNan(last.outsEnd[k])
    /\ \E k \in DOMAIN prev.outsEnd : IsNan(prev.outsEnd[k])
    /\ \E k \in DOMAIN outs : outs[k] # 0

----------------------------------------------------------------------------
\* the set_knob calls of tick t on knob i of module id
SetsOf(t, id, i) ==
    {j \in 1..Len(t.sets) : t.sets[j].id = id /\ t.sets[j].i = i}

\* the Knob patches whose source was NaN or absent at the end of tick t
DeadKnobPatches(t) ==
    {p \in patches : p[2][2] = "Knob" /\ ~HadValue(t, p)}

(* C10: set_knob is never called with NaN; a knob whose patch source is    *)
(* NaN or absent keeps its value in the pre-step application and in the    *)
(* knob-feedback pass.                                                     *)
C10_NoNaNKnob ==
    tick > 0 =>
        /\ \A j \in 1..Len(last.sets) : ~IsNan(last.sets[j].val)
        /\ \A id \in ModuleIds : \A i \in 1..Len(knobs[id]) :
                ~IsNan(knobs[id][i])
        /\ \A id \in ModuleIds : \A i \in 1..Len(knobs[id]) :
                SetsOf(last, id, i - 1) = {} =>
                    /\ knobs[id][i] = last.knobs0[id][i]
                    /\ CallOf(last, id).knobs[i] = last.knobs0[id][i]
        /\ \A p \in DeadKnobPatches(last) :
                ~\E j \in SetsOf(last, p[2][1], p[2][3]) :
                    last.sets[j].phase = "feedback"

\* a Knob patch whose source was NaN at the end of the tick left the knob
\* at the value it was loaded with
C10_Witness ==
    /\ tick > 0
    /\ \E p \in DeadKnobPatches(last) :
        /\ LiveSource(p)
        /\ p[1] \in DOMAIN last.outsEnd
        /\ knobs[p[2][1]][p[2][3] + 1] = InitKnobs(KindOf[p[2][1]])[p[2][3] + 1]

----------------------------------------------------------------------------
(* The time base: rack_stepper of src/src/main.rs.  Times are in           *)
(* microseconds.  The rack it steps has no patches, so a step of the Rack  *)
(* of main.rs steps every module in its first loop and pushes DOWNSAMPLE   *)
(* samples onto audio_out.buffer.                                          *)

FRAME_RATE == 60
DOWNSAMPLE == 2
BUFSIZE == 4096

\* default sample rates of the output device
SampleRates == {44100, 48000}

\* what the time source adds between two runs of rack_stepper
FrameTimes == {0, 16000, 16667, 20000}

\* let steps = sample_rate / FRAME_RATE / DOWNSAMPLE
AudioSteps(sample_rate) == (sample_rate \div FRAME_RATE) \div DOWNSAMPLE

\* let d = Duration::from_micros(1000 * 1000 / steps / FRAME_RATE)
Delta(sample_rate) == (1000000 \div AudioSteps(sample_rate)) \div FRAME_RATE

\* rack.step(t + i as f32 * d) for i in 0..steps: the timestamps passed
Timestamps(t, sample_rate) ==
    [i \in 1..AudioSteps(sample_rate) |-> t + (i - 1) * Delta(sample_rate)]

\* audio_out.buffer.len() after n calls of Rack::step of main.rs: each call
\* empties a buffer of BUFSIZE samples and then pushes DOWNSAMPLE samples
PushN(len, n) ==
    IF n = 0 THEN len
    ELSE ((len + DOWNSAMPLE * n - DOWNSAMPLE) % BUFSIZE) + DOWNSAMPLE

\* the time bases a rack starts with: before or after init_audio of setup
Clocks ==
    {[NoClock EXCEPT !.device = r] : r \in SampleRates}
    \cup {[NoClock EXCEPT !.device = r, !.sample_rate = r, !.audio_out = TRUE] :
            r \in SampleRates}

\* one run of rack_stepper; dt is what the time source advanced by
rack_stepper(dt) ==
    /\ clock.frames < MaxFrames
    /\ LET t == clock.elapsed + dt
       IN  IF clock.audio_out
           THEN clock' = [clock EXCEPT
                    !.elapsed = t,
                    !.frames = @ + 1,
                    !.stamps = Timestamps(t, clock.sample_rate),
                    !.before = clock.stamps,
                    !.buffer = PushN(@, AudioSteps(clock.sample_rate))]
           ELSE clock' = [clock EXCEPT
                    !.elapsed = t,
                    !.frames = @ + 1,
                    !.audio_out = TRUE,
                    !.sample_rate = clock.device]
    /\ UNCHANGED <<moduleVars, rackVars, audioVars, address, parsed>>

InitTime ==
    InitRack(ClassicRack, {{}}, {<<1, 2, 3>>}, {NoInput}, Clocks, {<<>>})

NextTime == \E dt \in FrameTimes : rack_stepper(dt)

SpecTime == InitTime /\ [][NextTime]_vars

----------------------------------------------------------------------------
(* The patch address parser: ModuleKeyVisitor::visit_str.  A string is a   *)
(* sequence of one-byte characters.                                        *)

Digits == {"0", "1"}

Chars == Digits \cup {"M", "I", "O", "K", "X", "+"}

\* the strings a rack file can hold as an address
Addresses == UNION {[1..n -> Chars] : n \in 0..MaxLen}

DigitVal(c) == IF c = "0" THEN 0 ELSE 1

\* the value of a string of decimal digits
RECURSIVE Decimal(_)
Decimal(str) ==
    IF str = <<>> THEN 0
    ELSE 10 * Decimal(SubSeq(str, 1, Len(str) - 1)) + DigitVal(str[Len(str)])

\* str.parse::<usize>(): an optional '+' and then at least one digit
ParseUsize(str) ==
    LET body == IF str # <<>> /\ str[1] = "+" THEN Tail(str) ELSE str
    IN  IF body # <<>> /\ \A j \in 1..Len(body) : body[j] \in Digits
        THEN [ok |-> TRUE, val |-> Decimal(body)]
        ELSE [ok |-> FALSE, val |-> 0]

\* v.split_once('M'): the position of the first 'M', 0 when there is none
FirstM(v) ==
    IF \E j \in 1..Len(v) : v[j] = "M"
    THEN CHOOSE j \in 1..Len(v) : v[j] = "M" /\ \A k \in 1..(j - 1) : v[k] # "M"
    ELSE 0

Ok(key) == [done |-> TRUE, ok |-> TRUE, key |-> key]

Err == [done |-> TRUE, ok |-> FALSE, key |-> <<>>]

\* a match on the last character that reads 'K' as an input
IokOfKnobAsInput(id, n, c) ==
    CASE c = "I" -> Ok(Key(id, "Input", n))
      [] c = "O" -> Ok(Key(id, "Output", n))
      [] c = "K" -> Ok(Key(id, "Input", n))
      [] OTHER -> Err

\* match v.get(v.len()-1..) { Some("I") => Input(iok), ... }
IokOf(id, n, c) ==
    CASE c = "I" -> Ok(Key(id, "Input", n))
      [] c = "O" -> Ok(Key(id, "Output", n))
      [] c = "K" -> Ok(Key(id, "Knob", n))
      [] OTHER -> Err

\* ModuleKeyVisitor::visit_str(v)
visit_str(v) ==
    LET m == FirstM(v)
    IN  IF m = 0 THEN Err
        ELSE LET id == ParseUsize(SubSeq(v, 1, m - 1))
                 iok == SubSeq(v, m + 1, Len(v))
                 head == SubSeq(iok, 1, Len(iok) - 1)
             IN  IF ~id.ok THEN Err
                 ELSE IF head # <<>>
                 THEN LET n == ParseUsize(head)
                      IN  IF ~n.ok THEN Err
                          ELSE IokOf(id.val, n.val, v[Len(v)])
                 ELSE Ok(Key(id.val, "None", 0))

\* the deserialization of one address of the rack file
Deserialize ==
    /\ ~parsed.done
    /\ parsed' = visit_str(address)
    /\ UNCHANGED <<moduleVars, rackVars, audioVars, clock, address>>

InitParse ==
    InitRack(ClassicRack, {{}}, {<<1, 2, 3>>}, {NoInput}, {NoClock}, Addresses)

NextParse == Deserialize

SpecParse == InitParse /\ [][NextParse]_vars

----------------------------------------------------------------------------
\* C11: every call of step passes exactly inputs() values and returns
\* exactly outputs() values, and every entry of outs is an output of its
\* module with an index below outputs().
C11_Arity ==
    tick > 0 =>
        /\ \A j \in 1..Len(last.calls) :
            /\ Len(last.calls[j].ins) = inputs(KindOf[last.calls[j].id])
            /\ Len(last.calls[j].outs) = outputs(KindOf[last.calls[j].id])
        /\ \A k \in DOMAIN outs :
            k[2] = "Output" /\ k[3] < outputs(KindOf[k[1]])

----------------------------------------------------------------------------
\* C12: when the samples of a tick make the accumulator hold exactly
\* AUDIO_BUFFER_SIZE samples, exactly one block is written in that tick and
\* the accumulator is empty afterwards; while it holds fewer, nothing is
\* written and the partial block is kept.
C12_BlockWritten ==
    stage # NoStage =>
        LET b == stage.before \o stage.ao
        IN  /\ Len(b) = AUDIO_BUFFER_SIZE =>
                stage.wrote = 1 /\ output.buffer = <<>>
            /\ Len(b) < AUDIO_BUFFER_SIZE =>
                stage.wrote = 0 /\ output.buffer = b

\* the tick whose sample completed a block of 512
C12_Witness ==
    /\ Len(stage.before) = AUDIO_BUFFER_SIZE - 1
    /\ Len(stage.ao) = 1
    /\ output.written = 1
    /\ output.buffer = <<>>

----------------------------------------------------------------------------
\* the modules whose drained buffer has an i-th sample
HaveSample(i) == {id \in ModuleIds : i <= Len(stage.drained[id])}

\* the sum of channel ch of the i-th samples of the modules of S
RECURSIVE ChannelSum(_, _, _)
ChannelSum(S, i, ch) ==
    IF S = {} THEN 0
    ELSE LET id == CHOOSE x \in S : TRUE
         IN  IF S = {id} THEN stage.drained[id][i][ch]
             ELSE FAdd(stage.drained[id][i][ch], ChannelSum(S \ {id}, i, ch))

\* C13: the samples appended to the accumulator in a tick are the
\* position-wise sum of the drained buffers of all modules: as long as the
\* longest buffer, sample i the channel-wise sum of the i-th samples of the
\* modules that have one; after the tick every audio buffer is empty.
C13_AdditiveMix ==
    stage # NoStage =>
        /\ \A id \in ModuleIds : Len(stage.ao) >= Len(stage.drained[id])
        /\ \E id \in ModuleIds : Len(stage.ao) = Len(stage.drained[id])
        /\ \A i \in 1..Len(stage.ao) :
            /\ stage.ao[i][1] = ChannelSum(HaveSample(i), i, 1)
            /\ stage.ao[i][2] = ChannelSum(HaveSample(i), i, 2)
        /\ \A id \in ModuleIds : audio_buffer[id] = <<>>
        /\ stage.wrote = 0 => output.buffer = stage.before \o stage.ao

\* two AudioOut modules pushed a sample each and the mix is their sum
C13_Witness ==
    /\ stage.drained[2] = <<(<<2, 2>>)>>
    /\ stage.drained[3] = <<(<<2, 2>>)>>
    /\ stage.ao = <<(<<4, 4>>)>>
    /\ Len(output.buffer) > 1

----------------------------------------------------------------------------
\* C14: a tick that reaches the capture-drain stage while the input
\* callback holds the mutex completes without waiting and leaves the
\* captured samples in the buffer.
C14_NonBlockingCapture ==
    [][(/\ pc = "idle"
        /\ input.holder = "callback"
        /\ (pc' = "lock" \/ tick' # tick))
       => (pc' = "idle" /\ tick' = tick + 1 /\ input'.buffer = input.buffer)]_vars

----------------------------------------------------------------------------
\* the position of the first event op of module id in the events of a tick
EventPos(op, id) ==
    CHOOSE j \in 1..Len(stage.events) :
        /\ stage.events[j].op = op /\ stage.events[j].id = id
        /\ \A k \in 1..(j - 1) :
            ~(stage.events[k].op = op /\ stage.events[k].id = id)

HasEvent(op, id) ==
    \E j \in 1..Len(stage.events) :
        stage.events[j].op = op /\ stage.events[j].id = id

\* C15: in each tick the captured-input buffer is drained and
\* extend_audio_buffer is called on every module before the step of that
\* module in the same tick.
C15_ExtendBeforeStep ==
    (stage # NoStage /\ pc = "idle" /\ input.present) =>
        \A id \in ModuleIds :
            /\ HasEvent("extend", id)
            /\ HasEvent("step", id)
            /\ EventPos("extend", id) < EventPos("step", id)

----------------------------------------------------------------------------
\* C18: Rack::exit runs the exit hook of every module, drops the audio
\* context and empties outs; the first step after it initializes the audio
\* context before any module is stepped and starts from an empty cache.
C18_Teardown ==
    [][/\ (audio_context /\ ~audio_context') =>
            /\ \A id \in ModuleIds : ~is_init'[id]
            /\ outs' = EmptyOuts
            /\ output'.buffer = <<>>
       /\ (~audio_context /\ audio_context') =>
            /\ stage'.events[1].op = "init_audio"
            /\ last'.outs0 = EmptyOuts
            /\ \A k \in DOMAIN outs' : \E j \in 1..Len(last'.calls) :
                    last'.calls[j].id = k[1]]_vars

\* a warm self-patched rack was torn down and stepped again
C18_Witness ==
    /\ patches = {SelfLoop(2)}
    /\ tick = 2
    /\ \A id \in ModuleIds : ~is_init[id]
    /\ audio_context
    /\ prev = NoTick
    /\ last.outs0 = EmptyOuts
    /\ IsNan(CallOf(last, 2).ins[1])

----------------------------------------------------------------------------
\* C16: per outer frame with device sample rate S and frame rate F the time
\* base performs 1 Key step and floor(S/F) - 1 Audio steps, each Audio step
\* advancing the clock by 1/S seconds (to the microsecond); for S = 44100
\* and F = 60 that is 735 steps.
C16_StepsPerFrame ==
    clock.stamps # <<>> =>
        LET S == clock.sample_rate
        IN  /\ Len(clock.stamps) = 1 + ((S \div FRAME_RATE) - 1)
            /\ S = 44100 => Len(clock.stamps) = 1 + 734
            /\ \A i \in 2..Len(clock.stamps) :
                LET adv == clock.stamps[i] - clock.stamps[i - 1]
                IN  adv * S > 1000000 - S /\ adv * S < 1000000 + S

----------------------------------------------------------------------------
\* C17: the step clock is seeded once and then advanced only by the computed
\* delta: the timestamp of every step is the timestamp of the step before
\* plus the delta, within a frame and from one frame to the next.
C17_ContinuousClock ==
    clock.stamps # <<>> =>
        /\ \A i \in 2..Len(clock.stamps) :
            clock.stamps[i] = clock.stamps[i - 1] + Delta(clock.sample_rate)
        /\ clock.before # <<>> =>
            clock.stamps[1] =
                clock.before[Len(clock.before)] + Delta(clock.sample_rate)

----------------------------------------------------------------------------
\* the address format "<id>M" or "<id>M<index><Kind>", id and index decimal
AllDigits(str) == str # <<>> /\ \A j \in 1..Len(str) : str[j] \in Digits

IsBare(v) == Len(v) >= 2 /\ v[Len(v)] = "M" /\ AllDigits(SubSeq(v, 1, Len(v) - 1))

IsFull(v) ==
    \E m \in 2..(Len(v) - 2) :
        /\ v[m] = "M"
        /\ AllDigits(SubSeq(v, 1, m - 1))
        /\ AllDigits(SubSeq(v, m + 1, Len(v) - 1))
        /\ v[Len(v)] \in {"I", "O", "K"}

WellFormed(v) == IsBare(v) \/ IsFull(v)

KindName(c) == CASE c = "I" -> "Input" [] c = "O" -> "Output" [] c = "K" -> "Knob"

\* the key a well-formed address denotes
Denoted(v) ==
    IF IsBare(v) THEN <<Decimal(SubSeq(v, 1, Len(v) - 1)), "None", 0>>
    ELSE LET m == CHOOSE j \in 2..(Len(v) - 2) : v[j] = "M"
         IN  <<Decimal(SubSeq(v, 1, m - 1)), KindName(v[Len(v)]),
               Decimal(SubSeq(v, m + 1, Len(v) - 1))>>

WellFormedAddresses == {v \in Addresses : WellFormed(v)}

\* C19: a well-formed address parses to the key it denotes (Input, Output
\* or Knob with its index, None for a bare "<id>M"), and two well-formed
\* addresses parse to the same key only if they denote the same id, kind
\* and index.
C19_ParsesWellFormed ==
    (parsed.done /\ WellFormed(address)) =>
        /\ parsed.ok
        /\ parsed.key = Denoted(address)
        /\ \A w \in WellFormedAddresses :
            visit_str(w).key = parsed.key => Denoted(w) = Denoted(address)

\* the address "1M0K" parsed to knob 0 of module 1
C19_Witness ==
    /\ parsed.done
    /\ address = <<"1", "M", "0", "K">>
    /\ parsed.key = Key(1, "Knob", 0)

\* C20: every address that is not well-formed is rejected with an error.
C20_RejectsMalformed ==
    (parsed.done /\ ~WellFormed(address)) => ~parsed.ok

----------------------------------------------------------------------------
\* module a feeds module b through some patch of P
Feeds(P, a, b) == \E p \in P : p[1][1] = a /\ p[2][1] = b

\* module a reaches module b along patches of P
ReachesIn(P, a, b) ==
    \/ Feeds(P, a, b)
    \/ \E c \in ModuleIds : Feeds(P, a, c) /\ Feeds(P, c, b)
    \/ \E c, d \in ModuleIds : Feeds(P, a, c) /\ Feeds(P, c, d) /\ Feeds(P, d, b)

Acyclic(P) == \A id \in ModuleIds : ~ReachesIn(P, id, id)

\* the patches of P from an existing output to an Input
InputPatches(P) == {p \in P : p[2][2] = "Input" /\ LiveSource(p)}

(* C22: in an acyclic rack (here: one whose patches all start at an output *)
(* its module has), on every tick and for every iteration order, every     *)
(* patched Input receives the value its source module produced in that     *)
(* same tick, and the source is stepped before the destination.            *)
C22_AcyclicInputsAreFresh ==
    (tick > 0 /\ Acyclic(patches) /\ \A p \in patches : LiveSource(p)) =>
        \A p \in InputPatches(patches) :
            /\ Pos(last, p[1][1]) < Pos(last, p[2][1])
            /\ Received(last, p) = Produced(last, p)

----------------------------------------------------------------------------
\* the one sample AudioOut buffers for the call c
StereoSample(c) ==
    LET left == FMul(c.ins[1], c.knobs[1])
    IN  <<left, IF IsNan(c.ins[2]) THEN left ELSE FMul(c.ins[2], c.knobs[1])>>

(* C23: a Key or Audio step makes every AudioOut buffer exactly one stereo *)
(* sample [input0*gain, input1*gain], a Video step none; with a NaN        *)
(* input 1 the right channel equals the left.                              *)
C23_OneStereoSample ==
    [][\A st \in StepType, sample \in NoiseSamples :
        \/ \A id \in ModuleIds :
                KindOf[id] = "AudioOut" =>
                    stage'.drained[id] =
                        IF st = "Video" THEN <<>>
                        ELSE <<StereoSample(CallOf(last', id))>>
        \/ ~RackStep(st, sample)]_vars

\* an AudioOut with gain 2 got 1 on input 0 and nothing on input 1 and
\* buffered [2, 2]
C23_Witness ==
    \E id \in ModuleIds :
        /\ KindOf[id] = "AudioOut"
        /\ tick > 0
        /\ CallOf(last, id).ins = <<1, NaN>>
        /\ stage.drained[id] = <<(<<2, 2>>)>>

----------------------------------------------------------------------------
\* the last call of KeyboardIn::step was the j-th step of its frame
KeyboardStepped(j) == keyboard_in.out # <<>> /\ keyboard_in.steps = j

(* C24: for one key and any sequence of frames, output 1 is 1.0 on exactly *)
(* the first step after a press, it is -1.0 on at most one step of a       *)
(* frame, and every 1.0 is followed by a -1.0 before the module returns to *)
(* its idle output [0, 0].                                                 *)
C24_AttackSustainRelease ==
    /\ (KeyboardStepped(1) /\ buttons.just_pressed) => keyboard_in.out[2] = 1
    /\ (\E j \in 2..MaxSteps : KeyboardStepped(j)) => keyboard_in.out[2] \notin {1, -1}
    /\ (\E j \in 1..MaxSteps : KeyboardStepped(j)) =>
            (keyboard_in.out = <<0, 0>> => ~keyboard_in.wasOpen)

----------------------------------------------------------------------------
\* a cell counts as alive when it is Alive or NewlyAlive
IsAlive(c) == c \in {"Alive", "NewlyAlive"}

\* the alive cells among the eight neighbours of (x, y) on the torus
AliveAround(g, x, y) ==
    LET at(dx, dy) == g[((y + dy + HEIGHT) % HEIGHT) + 1][((x + dx + WIDTH) % WIDTH) + 1]
        one(dx, dy) == IF IsAlive(at(dx, dy)) THEN 1 ELSE 0
    IN  one(-1, -1) + one(0, -1) + one(1, -1) + one(-1, 0) + one(1, 0)
        + one(-1, 1) + one(0, 1) + one(1, 1)

\* the Game of Life successor of g
LifeSuccessor(g) ==
    [yy \in 1..HEIGHT |-> [xx \in 1..WIDTH |->
        LET n == AliveAround(g, xx - 1, yy - 1)
        IN  IF IsAlive(g[yy][xx])
            THEN (IF n \in {2, 3} THEN "Alive" ELSE "NewlyDead")
            ELSE (IF n = 3 THEN "NewlyAlive" ELSE "Dead")]]

(* C25: whenever a scan of WIDTH*HEIGHT steps completes, the new grid is   *)
(* the Game of Life successor of the previous grid on the torus, with      *)
(* NewlyAlive cells counted as alive and NewlyDead cells as dead.          *)
C25_LifeSuccessor ==
    [][(conway.loaded /\ conway'.gens = conway.gens + 1) =>
            conway'.grid = LifeSuccessor(conway.grid)]_vars

----------------------------------------------------------------------------
\* what the last call of EnvelopeGenerator::step found and left
WasAttacked == envelope_generator.before[1].some
WasReleased == envelope_generator.before[2].some
Stamps == <<envelope_generator.attack_timestamp,
            envelope_generator.release_timestamp>>

(* C28: release_timestamp is set only while attack_timestamp is set and    *)
(* the unreachable!() arm is never taken; a release (-1.0) changes the     *)
(* timestamps only when the envelope is attacked and not released; a       *)
(* trigger (1.0) always leaves the envelope attacked with no release       *)
(* timestamp.                                                              *)
C28_EnvelopeStates ==
    /\ ~envelope_generator.panicked
    /\ envelope_generator.release_timestamp.some =>
            envelope_generator.attack_timestamp.some
    /\ envelope_generator.time > 0 =>
        LET asr == envelope_generator.ins[2]
        IN  /\ (asr = -1 /\ ~(WasAttacked /\ ~WasReleased)) =>
                    Stamps = envelope_generator.before
            /\ (asr = -1 /\ WasAttacked /\ ~WasReleased) =>
                    Stamps = <<envelope_generator.before[1],
                               Some(envelope_generator.time)>>
            /\ asr = 1 => Stamps = <<Some(envelope_generator.time), None>>
            /\ asr \notin {1, -1} => Stamps = envelope_generator.before

\* a released envelope was triggered again
C28_Witness ==
    /\ WasAttacked /\ WasReleased
    /\ envelope_generator.ins = <<NaN, 1>>
    /\ Stamps = <<Some(envelope_generator.time), None>>

----------------------------------------------------------------------------
(* C29: for every sequence of Looper steps and duration changes within     *)
(* [0.0, inf), a duration of 0 and a decrease while looping included, step *)
(* never reads the buffer out of bounds and never takes a remainder by 0.  *)
C29_LooperInBounds ==
    /\ looper.read.idx < looper.read.len
    /\ looper.read.d # 0
    /\ ~looper.panicked

----------------------------------------------------------------------------
(* C30: for every interleaving of the connection callback and MidiIn::step *)
(* every channel message the callback received has been processed by a     *)
(* step or is waiting in the queue (or about to be pushed), in arrival     *)
(* order: no message is dropped.                                           *)
C30_NoMessageDropped ==
    midi_in.received = midi_in.processed \o midi_in.events \o midi_in.message

----------------------------------------------------------------------------
----------------------------------------------------------------------------
(* C27: for every interleaving of input callbacks and ticks, the samples   *)
(* handed to extend_audio_buffer of each module followed by the samples    *)
(* still in the captured-input buffer are exactly the samples the callback *)
(* appended, in capture order: none lost, duplicated or reordered.         *)
C27_CapturedDeliveredOnce ==
    input.present =>
        \A id \in ModuleIds :
            input.delivered[id] \o input.buffer = input.captured

\* two callback runs were handed over by a tick and a third is waiting
C27_Witness ==
    /\ input.present
    /\ \A id \in ModuleIds : Len(input.delivered[id]) >= 2
    /\ input.delivered[1][1] # input.delivered[1][2]
    /\ input.buffer # <<>>

====
